---- MODULE Spec2Model ----
(***************************************************************************)
(* A model of rust-sdlang: the lexical scanner of src/src/scanner.rs and   *)
(* the recursive-descent parser of src/src/parser.rs.                      *)
(*                                                                         *)
(* A source text is a sequence of one-character strings.  Byte offsets are *)
(* 0-based as in the Rust code, so the character at offset i is src[i+1].  *)
(* An Option<Char> cursor is modelled by its offset; None is Len(src).     *)
(***************************************************************************)
EXTENDS Integers, Sequences, FiniteSets, TLC

VARIABLES
    scanner,    \* the Scanner struct: [source, start, current]
    ret,        \* what the last call of scan_token returned (NoCall before the first)
    out,        \* the tokens returned so far, as collected by tests::tokenize
    callFrom,   \* history: the offset of `current` when the last call began
    scanState,  \* "ready" | "eof" (returned None) | "hang" (a call never returns) | "panic"
    feed,       \* the parser's scanner: [source, tokens, pos]
    parser,     \* the Parser struct: [previous, current, tags]
    overflowChecks, \* the build: TRUE when arithmetic overflow panics (debug)
    pstate,     \* "idle" | "parsing" | "done" (parse returned) | "panic"
    hist        \* history of parse(): [calls, error, s, e, starts]

vars == <<scanner, ret, out, callFrom, scanState, feed, parser, overflowChecks,
          pstate, hist>>

scanVars == <<scanner, ret, out, callFrom, scanState>>
parseVars == <<feed, parser, overflowChecks, pstate, hist>>

(***************************************************************************)
(* Characters                                                              *)
(***************************************************************************)
Lower == {"a", "b", "c", "d", "e", "f", "g", "h", "i", "j", "k", "l", "m",
          "n", "o", "p", "q", "r", "s", "t", "u", "v", "w", "x", "y", "z"}
Upper == {"A", "B", "C", "D", "E", "F", "G", "H", "I", "J", "K", "L", "M",
          "N", "O", "P", "Q", "R", "S", "T", "U", "V", "W", "X", "Y", "Z"}
Digit == {"0", "1", "2", "3", "4", "5", "6", "7", "8", "9"}

\* char::is_ascii_alphabetic
IsAsciiAlphabetic(ch) == ch \in Lower \cup Upper

\* char::is_digit(10)
IsDigit10(ch) == ch \in Digit

\* char::is_whitespace, on the ASCII range
IsWhitespaceChar(ch) == ch \in {" ", "\t", "\n", "\r", "\f"}

\* The character at byte offset i (0-based) of src.
At(src, i) == src[i + 1]

\* &source[a..b]; callers check a <= b <= Len(src) first (Rust panics otherwise).
Slice(src, a, b) == SubSeq(src, a + 1, b)

(***************************************************************************)
(* Tokens of src/src/scanner.rs.  Every token is a record of the same      *)
(* shape; the fields a variant does not carry are 0 or "".                 *)
(***************************************************************************)
Tok(type) == [type |-> type, s |-> 0, e |-> 0, msg |-> ""]
TokSpan(type, s, e) == [type |-> type, s |-> s, e |-> e, msg |-> ""]
TokError(msg) == [type |-> "Error", s |-> 0, e |-> 0, msg |-> msg]

NoCall == Tok("NoCall")
None == Tok("None")

\* What one call of scan_token does: how it ends, the token it returns and
\* the fields start and current it leaves in the Scanner.
Returned(tok, start, cur) ==
    [end |-> "token", tok |-> tok, start |-> start, current |-> cur]
ReturnedNone(cur) ==
    [end |-> "eof", tok |-> None, start |-> cur, current |-> cur]
Hangs(start, cur) ==
    [end |-> "hang", tok |-> None, start |-> start, current |-> cur]
Panics(start, cur) ==
    [end |-> "panic", tok |-> None, start |-> start, current |-> cur]

(***************************************************************************)
(* Scanner::skip_whitespace                                                *)
(***************************************************************************)
\* The three comment loops: advance while the character is neither ';' nor
\* '\n'.  The offset where the loop breaks.
RECURSIVE CommentLoop(_, _)
CommentLoop(src, p) ==
    IF p < Len(src) /\ At(src, p) # ";" /\ At(src, p) # "\n"
    THEN CommentLoop(src, p + 1)
    ELSE p

\* peek_next(): the character after `current`, if any.
HasNext(src, p) == p + 1 < Len(src)
NextCh(src, p) == At(src, p + 1)

\* The while-let loop from offset p: [pos, hang].  An iteration that neither
\* advances nor breaks repeats for ever (the loop reads nothing else).
RECURSIVE SkipWhitespace(_, _)
SkipWhitespace(src, p) ==
    IF p >= Len(src) THEN [pos |-> p, hang |-> FALSE]
    ELSE LET ch == At(src, p) IN
      CASE ch \in {" ", "\r", "\t"} -> SkipWhitespace(src, p + 1)
        [] ch = "\\" ->
             IF HasNext(src, p)
             THEN IF NextCh(src, p) = "\n"
                  THEN SkipWhitespace(src, p + 2)
                  ELSE [pos |-> p, hang |-> TRUE]
             ELSE [pos |-> p, hang |-> FALSE]
        [] ch = "/" ->
             IF HasNext(src, p) /\ NextCh(src, p) = "/"
             THEN SkipWhitespace(src, CommentLoop(src, p + 1))
             ELSE [pos |-> p, hang |-> FALSE]
        [] ch = "#" -> SkipWhitespace(src, CommentLoop(src, p))
        [] ch = "-" ->
             IF HasNext(src, p)
             THEN IF NextCh(src, p) = "-"
                  THEN SkipWhitespace(src, CommentLoop(src, p))
                  ELSE [pos |-> p, hang |-> TRUE]
             ELSE [pos |-> p, hang |-> FALSE]
        [] OTHER -> [pos |-> p, hang |-> FALSE]

(***************************************************************************)
(* Scanner::identifier and Scanner::try_keyword                            *)
(***************************************************************************)
\* matches_source: the slice is taken first, and panics when it runs past
\* the end of the source.
MatchesSourcePanics(src, start, len) == start + len > Len(src)
MatchesSource(src, start, end, len, rest) ==
    end - start = len /\ Slice(src, start, start + len) = rest

\* The match of try_keyword, arm by arm: an arm's guard is evaluated only
\* when its pattern matches and no earlier arm was taken.
TryKeyword(src, start, end) ==
    LET ch == At(src, start)
        ident == Returned(TokSpan("Identifier", start, end), start, end)
        kw(type) == Returned(Tok(type), start, end)
    IN CASE ch = "t" ->
              IF MatchesSourcePanics(src, start + 1, 3) THEN Panics(start, end)
              ELSE IF MatchesSource(src, start + 1, end, 3, <<"r", "u", "e">>)
                   THEN kw("True") ELSE ident
         [] ch = "f" ->
              IF MatchesSourcePanics(src, start + 1, 4) THEN Panics(start, end)
              ELSE IF MatchesSource(src, start + 1, end, 4, <<"a", "l", "s", "e">>)
                   THEN kw("False") ELSE ident
         [] ch = "n" ->
              IF MatchesSourcePanics(src, start + 1, 3) THEN Panics(start, end)
              ELSE IF MatchesSource(src, start + 1, end, 3, <<"u", "l", "l">>)
                   THEN kw("Null") ELSE ident
         [] ch = "o" ->
              IF end - start > 1
              THEN IF MatchesSourcePanics(src, start + 1, 1) THEN Panics(start, end)
                   ELSE IF MatchesSource(src, start + 1, end, 1, <<"n">>)
                   THEN kw("On")
                   ELSE IF MatchesSourcePanics(src, start + 1, 2) THEN Panics(start, end)
                   ELSE IF MatchesSource(src, start + 1, end, 2, <<"f", "f">>)
                   THEN kw("Off") ELSE ident
              ELSE ident
         [] OTHER -> ident

\* The loop of identifier(): the offset after the run of letters and digits.
RECURSIVE AlnumRun(_, _)
AlnumRun(src, p) ==
    IF p < Len(src) /\ (IsAsciiAlphabetic(At(src, p)) \/ IsDigit10(At(src, p)))
    THEN AlnumRun(src, p + 1)
    ELSE p

\* identifier(), entered with the first letter at `start` already consumed.
Identifier(src, start) == TryKeyword(src, start, AlnumRun(src, start + 1))

(***************************************************************************)
(* Scanner::number                                                         *)
(***************************************************************************)
\* while self.is_digit(self.peek()) { self.advance(); }
RECURSIVE DigitRun(_, _)
DigitRun(src, p) ==
    IF p < Len(src) /\ IsDigit10(At(src, p)) THEN DigitRun(src, p + 1) ELSE p

\* while !self.is_whitespace(self.peek()) { self.advance(); }
\* is_whitespace(None) is true, so the loop stops at the end of the source.
RECURSIVE NonWhitespaceRun(_, _)
NonWhitespaceRun(src, p) ==
    IF p < Len(src) /\ ~IsWhitespaceChar(At(src, p))
    THEN NonWhitespaceRun(src, p + 1)
    ELSE p

\* NumberDot with the dot of "'.' must be followed by digit." consumed.
NumberDotConsumed(src, start, end) ==
    IF HasNext(src, end)
    THEN IF IsDigit10(NextCh(src, end))
         THEN Returned(TokSpan("Float64Double", start, DigitRun(src, end + 1)),
                       start, DigitRun(src, end + 1))
         ELSE Returned(TokError("'.' must be followed by digit."), start, end + 1)
    ELSE Returned(TokError("Number cannot end with '.'"), start, end)

\* The arm Some((_, '.')) of number(): `end` is the offset of the dot.
NumberDot(src, start, end) ==
    IF HasNext(src, end)
    THEN IF IsDigit10(NextCh(src, end))
         THEN LET e2 == DigitRun(src, end + 1) IN
              IF e2 < Len(src) /\ At(src, e2) = "d"
              THEN Returned(TokSpan("Float64", start, e2 + 1), start, e2 + 1)
              ELSE IF e2 < Len(src) /\ At(src, e2) = "f"
              THEN Returned(TokSpan("Float32", start, e2 + 1), start, e2 + 1)
              ELSE IF e2 < Len(src) /\ At(src, e2) = "B"
              THEN IF e2 + 1 < Len(src) /\ At(src, e2 + 1) = "D"
                   THEN Returned(TokSpan("Decimal128", start, e2 + 2), start, e2 + 2)
                   ELSE Returned(TokError("Unknown number type B."), start, e2 + 1)
              ELSE Returned(TokSpan("Float64Double", start, e2), start, e2)
         ELSE Returned(TokError("'.' must be followed by digit."), start, end)
    ELSE Returned(TokError("Number cannot end with '.'"), start, end)

\* The arm Some((_, '/')) | Some((_, ':')) of number().
NumberDate(src, start, end) ==
    IF HasNext(src, end) /\ IsDigit10(NextCh(src, end))
    THEN LET e2 == NonWhitespaceRun(src, end + 1) IN
         IF HasNext(src, e2) /\ IsDigit10(NextCh(src, e2))
         THEN LET e3 == NonWhitespaceRun(src, e2 + 1) IN
              Returned(TokSpan("Date", start, e3), start, e3)
         ELSE Returned(TokSpan("Date", start, e2), start, e2)
    ELSE Returned(TokError("Invalid date."), start, end)

\* Number with the suffix `L` counted twice in the span of a Long.
NumberLongPastEnd(src, start) ==
    LET end == DigitRun(src, start + 1) IN
    IF end < Len(src) /\ At(src, end) = "L"
    THEN Returned(TokSpan("Long", start, end + 2), start, end + 1)
    ELSE IF end < Len(src) /\ At(src, end) = "."
    THEN NumberDot(src, start, end)
    ELSE IF end < Len(src) /\ At(src, end) \in {"/", ":"}
    THEN NumberDate(src, start, end)
    ELSE Returned(TokSpan("Number", start, end), start, end)

\* number(), entered with the first digit at `start` already consumed.
Number(src, start) ==
    LET end == DigitRun(src, start + 1) IN
    IF end < Len(src) /\ At(src, end) = "L"
    THEN Returned(TokSpan("Long", start, end + 1), start, end + 1)
    ELSE IF end < Len(src) /\ At(src, end) = "."
    THEN NumberDot(src, start, end)
    ELSE IF end < Len(src) /\ At(src, end) \in {"/", ":"}
    THEN NumberDate(src, start, end)
    ELSE Returned(TokSpan("Number", start, end), start, end)

(***************************************************************************)
(* Scanner::string                                                         *)
(***************************************************************************)
\* loop { match self.peek() { Some((_, ch)) if ch != '"' => advance, _ => break } }
RECURSIVE StringLoop(_, _)
StringLoop(src, p) ==
    IF p < Len(src) /\ At(src, p) # "\"" THEN StringLoop(src, p + 1) ELSE p

\* String with a span that keeps the two quotes.
StringKeepsQuotes(src, start) ==
    LET q == StringLoop(src, start + 1) IN
    IF q >= Len(src)
    THEN Returned(TokError("Unterminated string."), start, q)
    ELSE Returned(TokSpan("String", start, q + 1), start, q + 1)

\* string(), entered with the opening quote at `start` already consumed.
\* After the closing quote is consumed range() is (start, q + 1).
String(src, start) ==
    LET q == StringLoop(src, start + 1) IN
    IF q >= Len(src)
    THEN Returned(TokError("Unterminated string."), start, q)
    ELSE Returned(TokSpan("String", start + 1, (q + 1) - 1), start, q + 1)

(***************************************************************************)
(* Scanner::scan_token                                                     *)
(***************************************************************************)
\* The match on the first character, at offset `start`, once it is consumed.
ScanLexeme(src, start) ==
    LET ch == At(src, start) IN
    IF IsAsciiAlphabetic(ch) THEN Identifier(src, start)
    ELSE IF IsDigit10(ch) THEN Number(src, start)
    ELSE CASE ch = "\"" -> String(src, start)
           [] ch = "=" -> Returned(Tok("Equal"), start, start + 1)
           [] ch = ";" ->
                IF start + 1 < Len(src) /\ At(src, start + 1) = "\n"
                THEN Returned(Tok("Semicolon"), start, start + 2)
                ELSE Returned(Tok("Semicolon"), start, start + 1)
           [] ch = "\n" -> Returned(Tok("Semicolon"), start, start + 1)
           [] OTHER -> Returned(TokError("Unexpected character."), start, start + 1)

\* One call of scan_token with `current` at offset cur.
ScanTokenFrom(src, cur) ==
    LET sk == SkipWhitespace(src, cur) IN
    IF sk.hang THEN Hangs(cur, sk.pos)
    ELSE IF sk.pos >= Len(src) THEN ReturnedNone(sk.pos)
    ELSE ScanLexeme(src, sk.pos)

(***************************************************************************)
(* The source texts the scanner is run on: every text of at most MaxSrcLen *)
(* characters over ScanAlphabet, and the texts of the tests of scanner.rs  *)
(* and of the specification.                                               *)
(***************************************************************************)
MaxSrcLen == 3

ScanAlphabet == {"a", "t", "5", ".", "/", "-", "\\", "\n", ";", "#", " ", "\""}

SeqsUpTo(S, n) == UNION {[1..k -> S] : k \in 0..n}

\* scan_integers
SrcInteger ==
    <<"1">>
\* scan_64_double_floats
SrcFloat ==
    <<"1", ".", "5", "6", "7">>
\* scan_64_floats
SrcFloat64 ==
    <<"1", ".", "5", "6", "7", "d">>
\* scan_32_floats
SrcFloat32 ==
    <<"1", ".", "5", "6", "7", "f">>
\* scan_long
SrcLong ==
    <<"1", "5", "5", "L">>
\* scan_128_decimal
SrcDecimal ==
    <<"1", "5", "5", ".", "8", "B", "D">>
\* scan_string
SrcString ==
    <<"\"", "h", "e", "l", "l", "o", "\"">>
\* scan_identifier
SrcIdentifier ==
    <<"a", "u", "t", "h", "o", "r">>
\* automatic_semicolon
SrcAutoSemicolon ==
    <<"a", "u", "t", "h", "o", "r", " ", " ", "\n", "a", "g", "e">>
\* backslash
SrcBackslash ==
    <<"a", "u", "t", "h", "o", "r", " ", " ", "\\", "\n", "a", "g", "e">>
\* skips_comments
SrcComment ==
    <<"a", "u", "t", "h", "o", "r", " ", "/", "/", "c", "o", "m", "m", "e",
    "n", "t", " ", "c", "o", "m", "m", "e", "n", "t", ";", "\n", "a", "g",
    "e", "\n">>
\* skips_lua_comments
SrcLuaComment ==
    <<"a", "u", "t", "h", "o", "r", " ", "-", "-", "c", "o", "m", "m", "e",
    "n", "t", " ", "c", "o", "m", "m", "e", "n", "t", ";", "\n", "a", "g",
    "e", "\n">>
\* skips_shell_comments
SrcShellComment ==
    <<"a", "u", "t", "h", "o", "r", " ", "#", "c", "o", "m", "m", "e", "n",
    "t", " ", "c", "o", "m", "m", "e", "n", "t", ";", "\n", "a", "g", "e",
    "\n">>
\* scan_attribute
SrcAttribute ==
    <<"p", "r", "i", "v", "a", "t", "e", "=", "t", "r", "u", "e">>
\* scan_string_attribute
SrcStringAttribute ==
    <<"p", "l", "a", "t", "f", "o", "r", "m", "=", "\"", "d", "a", "r", "w",
    "i", "n", "\"">>
\* scan_time
SrcTime ==
    <<"1", "3", ":", "2", "3", ":", "3", "4">>
\* scan_date_1
SrcDate ==
    <<"2", "0", "1", "5", "/", "1", "2", "/", "0", "6", " ", "1", "2", ":",
    "0", "0", ":", "0", "0", ".", "0", "0", "0", "-", "U", "T", "C", " ",
    "a", "t", "t", "r">>
\* scan_keywords
SrcKeywords ==
    <<"o", "f", "f", " ", "o", "n", " ", "t", "r", "u", "e", " ", "f", "a",
    "l", "s", "e", " ", "n", "u", "l", "l">>
\* date_error
SrcDateError ==
    <<"2", "0", "1", "5", "/", "a">>
\* number_error_1
SrcNumberError1 ==
    <<"5", ".">>
\* number_error_3
SrcNumberError3 ==
    <<"5", ".", "3", "B", "F">>
\* the floats of the specification's section 8
SrcFloats ==
    <<"1", ".", "2", " ", "3", ".", "4", " ", "5", ".", "6", "e", "1", " ",
    "7", ".", "8", "e", "+", "1", "2">>
\* a date whose parts are separated by a newline
SrcDateNewline ==
    <<"1", "/", "2", "\n", "3">>
\* prefixes and extensions of reserved words
SrcPrefixes ==
    <<"t", " ", "n", "u", "l", " ", "o", "f", " ", "t", "r", "u", "e", "s",
    " ", "o", "n", "c", "e", " ", "x">>
\* a comment with words in it
SrcCommentText ==
    <<"a", " ", "#", "b", " ", "c", "\n", "d">>

ExampleSources ==
    {SrcInteger, SrcFloat, SrcFloat64, SrcFloat32, SrcLong, SrcDecimal, SrcString, SrcIdentifier, SrcAutoSemicolon, SrcBackslash, SrcComment, SrcLuaComment, SrcShellComment, SrcAttribute, SrcStringAttribute, SrcTime, SrcDate, SrcKeywords, SrcDateError, SrcNumberError1, SrcNumberError3, SrcFloats, SrcDateNewline, SrcPrefixes, SrcCommentText}

ScanSources == SeqsUpTo(ScanAlphabet, MaxSrcLen) \cup ExampleSources

(***************************************************************************)
(* The scanner as tests::tokenize drives it: Scanner::new, then scan_token *)
(* until it returns None.                                                  *)
(***************************************************************************)
\* A call that does not return leaves no return value.
Never == Tok("Never")

\* Parser state while only the scanner runs.
ParserIdle ==
    /\ feed = [source |-> <<>>, tokens |-> <<>>, pos |-> 0]
    /\ parser = [previous |-> NoCall, current |-> NoCall, tags |-> <<>>]
    /\ overflowChecks = FALSE
    /\ pstate = "idle"
    /\ hist = [calls |-> 0, error |-> "", s |-> 0, e |-> 0, starts |-> <<>>]

\* Scanner::new: start and current are the first character (offset 0).
ScanInit ==
    /\ \E src \in ScanSources :
         scanner = [source |-> src, start |-> 0, current |-> 0]
    /\ ret = NoCall
    /\ out = <<>>
    /\ callFrom = 0
    /\ scanState = "ready"
    /\ ParserIdle

\* One call of scan_token by the loop of tests::tokenize.
ScanToken ==
    /\ scanState = "ready"
    /\ LET r == ScanTokenFrom(scanner.source, scanner.current) IN
         /\ scanner' = [scanner EXCEPT
                          !.start = IF r.end = "hang" THEN @ ELSE r.start,
                          !.current = r.current]
         /\ ret' = IF r.end \in {"hang", "panic"} THEN Never ELSE r.tok
         /\ out' = IF r.end = "token" THEN Append(out, r.tok) ELSE out
         /\ scanState' = IF r.end = "token" THEN "ready" ELSE r.end
    /\ callFrom' = scanner.current
    /\ UNCHANGED parseVars

ScanNext == ScanToken

ScanSpec == ScanInit /\ [][ScanNext]_vars

(***************************************************************************)
(* Claims about the scanner (checked under ScanSpec)                       *)
(***************************************************************************)
Src == scanner.source

\* The last call of scan_token returned a token.
ReturnedToken == scanState = "ready" /\ ret # NoCall

ErrUnexpected == TokError("Unexpected character.")
ErrDot == TokError("'.' must be followed by digit.")

\* C4: the scanner always makes progress: every call of scan_token
\* terminates, a call that returns a token has consumed at least one
\* character, and a character that starts no lexeme is consumed alone and
\* reported as Error("Unexpected character.").
C4_ScannerMakesProgress ==
    /\ scanState # "hang"
    /\ ReturnedToken => scanner.current > callFrom
    /\ (ReturnedToken /\ ret = ErrUnexpected) =>
           scanner.current = scanner.start + 1

\* A comment marker (`//`, `#` or `--`) at offset m.
CommentMarkerAt(src, m) ==
    \/ At(src, m) = "#"
    \/ HasNext(src, m) /\ At(src, m) = "/" /\ NextCh(src, m) = "/"
    \/ HasNext(src, m) /\ At(src, m) = "-" /\ NextCh(src, m) = "-"

\* C5: comments are never tokenized: when the skipping of a call has met a
\* comment marker, the token the call returns starts no earlier than the
\* next newline, so no character of the comment's line is part of it.
C5_CommentsNeverTokenized ==
    ReturnedToken =>
        \A m \in callFrom..(scanner.start - 1) :
            CommentMarkerAt(Src, m) =>
                \E k \in m..scanner.start : At(Src, k) = "\n"

\* The token the specification gives a lexeme of letters and digits.
KeywordOrIdentifier(lexeme, start, end) ==
    CASE lexeme = <<"t", "r", "u", "e">> -> Tok("True")
      [] lexeme = <<"f", "a", "l", "s", "e">> -> Tok("False")
      [] lexeme = <<"n", "u", "l", "l">> -> Tok("Null")
      [] lexeme = <<"o", "n">> -> Tok("On")
      [] lexeme = <<"o", "f", "f">> -> Tok("Off")
      [] OTHER -> TokSpan("Identifier", start, end)

\* C6: keyword classification is an exact match: a call that meets a letter
\* returns the reserved-word token when the whole run of letters and digits
\* is that word, and Identifier(start, end) with the run's span otherwise,
\* wherever the run stands in the source.
C6_KeywordExactMatch ==
    (/\ scanState \in {"ready", "panic"}
     /\ ret # NoCall
     /\ scanner.start < Len(Src)
     /\ IsAsciiAlphabetic(At(Src, scanner.start))) =>
        LET end == AlnumRun(Src, scanner.start + 1) IN
        /\ scanState = "ready"
        /\ scanner.current = end
        /\ ret = KeywordOrIdentifier(Slice(Src, scanner.start, end),
                                     scanner.start, end)

\* The text `5.a`.
SrcDotLetter == <<"5", ".", "a">>

\* C7 as stated: the Error token of a digit run followed by `.` and a
\* non-digit covers the dot, the next call starts after the dot, and `5.a`
\* lexes to that Error token followed by an Identifier token.
C7_ErrorCoversDot ==
    /\ (ReturnedToken /\ ret = ErrDot) =>
           /\ scanner.current >= 1
           /\ At(Src, scanner.current - 1) = "."
    /\ (Src = SrcDotLetter /\ scanState = "eof") =>
           out = <<ErrDot, TokSpan("Identifier", 2, 3)>>

\* C7 as amended: a digit run followed by `.` and a non-digit yields one
\* Error("'.' must be followed by digit.") token that consumes the digits and
\* leaves the dot; the next call starts at the dot and returns
\* Error("Unexpected character."); `5.a` lexes to these two Error tokens
\* followed by an Identifier token for `a`.
C7_ErrorLeavesDot ==
    /\ (/\ ReturnedToken
        /\ IsDigit10(At(Src, scanner.start))
        /\ LET e == DigitRun(Src, scanner.start + 1) IN
             /\ HasNext(Src, e)
             /\ At(Src, e) = "."
             /\ ~IsDigit10(NextCh(Src, e))) =>
           ret = ErrDot
    /\ (ReturnedToken /\ ret = ErrDot) =>
           /\ scanner.current = DigitRun(Src, scanner.start + 1)
           /\ scanner.current < Len(Src)
           /\ At(Src, scanner.current) = "."
    /\ \A i \in 1..Len(out) :
           out[i] = ErrDot =>
               /\ i < Len(out) => out[i + 1] = ErrUnexpected
               /\ scanState # "ready" => i < Len(out)
    /\ (Src = SrcDotLetter /\ scanState = "eof") =>
           out = <<ErrDot, ErrUnexpected, TokSpan("Identifier", 2, 3)>>

\* C7 witness: `5.a` has been scanned to its end.
C7_Witness ==
    /\ Src = SrcDotLetter
    /\ scanState = "eof"
    /\ out = <<ErrDot, ErrUnexpected, TokSpan("Identifier", 2, 3)>>

\* An exponent part (`e` or `E`, an optional sign, a digit) at offset p.
ExponentAt(src, p) ==
    /\ p < Len(src)
    /\ At(src, p) \in {"e", "E"}
    /\ \/ HasNext(src, p) /\ IsDigit10(NextCh(src, p))
       \/ /\ p + 2 < Len(src)
          /\ NextCh(src, p) \in {"+", "-"}
          /\ IsDigit10(At(src, p + 2))

\* C8: a float lexeme, exponent included, is one float token that spans the
\* whole lexeme: no float token stops in front of an exponent part, and
\* `1.2 3.4 5.6e1 7.8e+12` lexes to four float tokens and nothing else.
C8_FloatSpansExponent ==
    /\ (ReturnedToken /\ ret.type = "Float64Double") =>
           ~ExponentAt(Src, scanner.current)
    /\ (Src = SrcFloats /\ scanState = "eof") =>
           out = <<TokSpan("Float64Double", 0, 3), TokSpan("Float64Double", 4, 7),
                   TokSpan("Float64Double", 8, 13), TokSpan("Float64Double", 14, 21)>>

\* C9: line ends terminate statements: of the characters a call consumes,
\* every newline outside a string and not immediately after `\` is the last
\* character of a Semicolon token (the newline alone, or `;` and the newline
\* absorbed into it); a newline immediately after `\` yields nothing but,
\* at most, such a Semicolon.
C9_NewlineIsSemicolon ==
    (scanState \in {"ready", "eof"} /\ ret # NoCall) =>
        \A i \in callFrom..(scanner.current - 1) :
            LET inString == /\ i >= scanner.start
                            /\ \/ ret.type = "String"
                               \/ ret = TokError("Unterminated string.")
                afterBackslash == i > 0 /\ At(Src, i - 1) = "\\"
                isSemicolon == /\ ret = Tok("Semicolon")
                               /\ i >= scanner.start
                               /\ i = scanner.current - 1
            IN (At(Src, i) = "\n" /\ ~inString) =>
                   IF afterBackslash THEN i < scanner.start \/ isSemicolon
                   ELSE isSemicolon

ErrUnterminated == TokError("Unterminated string.")

\* The offsets after `start` of the double quotes of src.
QuotesAfter(src, start) ==
    {k \in (start + 1)..(Len(src) - 1) : At(src, k) = "\""}

Minimum(S) == CHOOSE x \in S : \A y \in S : x <= y

UnterminatedScanned ==
    /\ Src = <<"\"", "a">>
    /\ scanState = "eof"
    /\ out = <<ErrUnterminated>>

\* The tokens of scanner.rs that carry a span.
SpanBearing ==
    {"Identifier", "String", "Number", "Long", "Float64Double", "Float64",
     "Float32", "Decimal128", "Date"}

\* C15: the span invariant of the scanner: every span-bearing token returned
\* so far has 0 <= start <= end <= length of the source, the token just
\* returned lies within the characters its call consumed, and each
\* span-bearing token starts at or after the end of every earlier one.
C15_SpanInvariant ==
    /\ \A i \in 1..Len(out) :
           out[i].type \in SpanBearing =>
               /\ 0 <= out[i].s
               /\ out[i].s <= out[i].e
               /\ out[i].e <= Len(Src)
               /\ \A j \in 1..(i - 1) :
                      out[j].type \in SpanBearing => out[j].e <= out[i].s
    /\ (ReturnedToken /\ ret.type \in SpanBearing) =>
           /\ scanner.start <= ret.s
           /\ ret.e <= scanner.current

\* C15 witness: the date and the identifier of tests::scan_date_1 have been
\* scanned, and the numbers with a suffix of the other tests.
C15_Witness ==
    \/ /\ Src = SrcDate
       /\ scanState = "eof"
       /\ out = <<TokSpan("Date", 0, 27), TokSpan("Identifier", 28, 32)>>
    \/ /\ Src = SrcDecimal
       /\ scanState = "eof"
       /\ out = <<TokSpan("Decimal128", 0, 7)>>

(***************************************************************************)
(* The parser of src/src/parser.rs.  It reads the tokens of a scanner      *)
(* whose tokens carry a span (Identifier, Integer, String, Float64, True,  *)
(* False, Null, Equal, Semicolon, LeftBrace, RightBrace, Error, Eof); the  *)
(* line number of a token only reaches the text of the diagnostic and is   *)
(* left out.  The parser state handed from operator to operator is         *)
(*   st = [source, tokens, pos, current, checks]                           *)
(* where pos counts the calls of scanner.next() so far, so that `current`  *)
(* is tokens[pos], or Eof once pos > Len(tokens).                          *)
(***************************************************************************)
Eof(s, e) == TokSpan("Eof", s, e)
TokErrorAt(msg, s, e) == [type |-> "Error", s |-> s, e |-> e, msg |-> msg]

\* enum Value
VString(text) == [type |-> "String", v |-> text]
VInteger(n) == [type |-> "Integer", v |-> n]
VFloat(m, scale) == [type |-> "Float", v |-> <<m, scale>>]
VBoolean(b) == [type |-> "Boolean", v |-> b]
VNull == [type |-> "Null", v |-> 0]

\* The results of the parsing operations: Ok(Some(val)), Ok(None),
\* Err(Error(msg, s, e, _)) and a panic, each with the parser state it leaves.
Some(val, st) == [kind |-> "some", val |-> val, st |-> st]
NoneIn(st) == [kind |-> "none", st |-> st]
Err(msg, s, e, st) == [kind |-> "err", msg |-> msg, s |-> s, e |-> e, st |-> st]
Panic(st) == [kind |-> "panic", st |-> st]

\* Tag::new, with two history fields the struct does not have: `from`, the
\* index of the tag's name among the tokens, and `close`, the index of the
\* `;` or `{` that ended its values and attributes (0 while it is open).
TagNew(name, from) ==
    [name |-> name, values |-> <<>>, attributes |-> [n \in {} |-> VNull],
     children |-> <<>>, from |-> from, close |-> 0]

\* Insert that keeps the value a key already has.
InsertKeepsFirst(map, key, value) ==
    [k \in DOMAIN map \cup {key} |->
        IF k \in DOMAIN map THEN map[k] ELSE value]

\* HashMap::insert
Insert(map, key, value) ==
    [k \in DOMAIN map \cup {key} |-> IF k = key THEN value ELSE map[k]]

Min(a, b) == IF a <= b THEN a ELSE b

\* Parser::advance.  source_length() - 2 underflows on a source of fewer
\* than two bytes: a panic where overflow is checked, a huge value otherwise,
\* and the minimum of 0 and either is 0.
AdvancePanics(st) == Len(st.source) < 2 /\ st.checks
Advance(st) ==
    LET span == IF Len(st.source) >= 2 THEN Min(0, Len(st.source) - 2) ELSE 0 IN
    [st EXCEPT !.pos = @ + 1,
               !.current = IF st.pos + 1 <= Len(st.tokens)
                           THEN st.tokens[st.pos + 1]
                           ELSE Eof(span, span + 1)]

\* Parser::identifier
ParserIdentifier(st) ==
    LET t == st.current IN
    CASE t.type = "Identifier" ->
           IF AdvancePanics(st) THEN Panic(st)
           ELSE Some(Slice(st.source, t.s, t.e), Advance(st))
      [] t.type = "Error" -> Err(t.msg, t.s, t.e, st)
      [] OTHER -> NoneIn(st)

I32Max == 2147483647

DigitValue(ch) ==
    CASE ch = "0" -> 0 [] ch = "1" -> 1 [] ch = "2" -> 2 [] ch = "3" -> 3
      [] ch = "4" -> 4 [] ch = "5" -> 5 [] ch = "6" -> 6 [] ch = "7" -> 7
      [] ch = "8" -> 8 [] ch = "9" -> 9

\* str::parse::<i32> on a run of digits, digit by digit with checked
\* arithmetic: the number, or -1 for Err (the value does not fit in an i32).
RECURSIVE ParseI32From(_, _, _)
ParseI32From(text, i, acc) ==
    IF i > Len(text) THEN acc
    ELSE LET d == DigitValue(text[i]) IN
         IF acc > (I32Max - d) \div 10 THEN -1
         ELSE ParseI32From(text, i + 1, acc * 10 + d)

ParseI32(text) == ParseI32From(text, 1, 0)

\* str::parse::<f64> on digits '.' digits: the decimal number as
\* <<mantissa, scale>> (mantissa / 10^scale) with no trailing zero in the
\* fraction, so that 1.50 and 1.5 are the same value.
RECURSIVE StripZeros(_)
StripZeros(text) ==
    IF Len(text) > 0 /\ text[Len(text)] = "0"
    THEN StripZeros(SubSeq(text, 1, Len(text) - 1))
    ELSE text

RECURSIVE ParseNatFrom(_, _, _)
ParseNatFrom(text, i, acc) ==
    IF i > Len(text) THEN acc
    ELSE ParseNatFrom(text, i + 1, acc * 10 + DigitValue(text[i]))

ParseF64(text) ==
    LET dot == CHOOSE i \in 1..Len(text) : text[i] = "."
        frac == StripZeros(SubSeq(text, dot + 1, Len(text)))
    IN VFloat(ParseNatFrom(SubSeq(text, 1, dot - 1) \o frac, 1, 0), Len(frac))

\* Parser::literal
Literal(st) ==
    LET t == st.current
        then(val) == IF AdvancePanics(st) THEN Panic(st) ELSE Some(val, Advance(st))
    IN
    CASE t.type = "Integer" ->
           IF AdvancePanics(st) \/ ParseI32(Slice(st.source, t.s, t.e)) < 0
           THEN Panic(st)
           ELSE Some(VInteger(ParseI32(Slice(st.source, t.s, t.e))), Advance(st))
      [] t.type = "String" -> then(VString(Slice(st.source, t.s, t.e)))
      [] t.type = "Float64" -> then(ParseF64(Slice(st.source, t.s, t.e)))
      [] t.type = "True" -> then(VBoolean(TRUE))
      [] t.type = "False" -> then(VBoolean(FALSE))
      [] t.type = "Null" -> then(VNull)
      [] t.type = "Error" -> Err(t.msg, t.s, t.e, st)
      [] OTHER -> NoneIn(st)

\* Attribute that gives the name back when no `=` follows it, so that the
\* caller tries the token as a literal.
AttributeBacktracks(st) ==
    LET name == ParserIdentifier(st) IN
    IF name.kind # "some" THEN name
    ELSE LET t == name.st.current IN
      CASE t.type = "Equal" ->
             IF AdvancePanics(name.st) THEN Panic(name.st)
             ELSE LET literal == Literal(Advance(name.st)) IN
                  CASE literal.kind = "some" ->
                         Some(<<name.val, literal.val>>, literal.st)
                    [] literal.kind = "none" ->
                         Err("Expect literal after '='.", t.s, t.e, literal.st)
                    [] OTHER -> literal
        [] OTHER -> NoneIn(st)

\* Parser::attribute: Some(<<name, value>>), None, Err or panic.
Attribute(st) ==
    LET name == ParserIdentifier(st) IN
    IF name.kind # "some" THEN name
    ELSE LET t == name.st.current IN
      CASE t.type = "Equal" ->
             IF AdvancePanics(name.st) THEN Panic(name.st)
             ELSE LET literal == Literal(Advance(name.st)) IN
                  CASE literal.kind = "some" ->
                         Some(<<name.val, literal.val>>, literal.st)
                    [] literal.kind = "none" ->
                         Err("Expect literal after '='.", t.s, t.e, literal.st)
                    [] OTHER -> literal
        [] t.type = "Eof" -> Err("Unexpected identifier.", t.s, t.e, name.st)
        [] OTHER -> Err("Expect '=' after attribute name.", t.s, t.e, name.st)

\* Parser::attribute_or_literal: Some(<<Some(name), value>>) is
\* Some([named |-> TRUE, ...]), Some(<<None, value>>) has named FALSE.
AttributeOrLiteral(st) ==
    LET attribute == Attribute(st) IN
    CASE attribute.kind = "some" ->
           Some([named |-> TRUE, name |-> attribute.val[1],
                 value |-> attribute.val[2]], attribute.st)
      [] attribute.kind = "none" ->
           LET literal == Literal(attribute.st) IN
           IF literal.kind = "some"
           THEN Some([named |-> FALSE, name |-> <<>>, value |-> literal.val],
                     literal.st)
           ELSE literal
      [] OTHER -> attribute

(***************************************************************************)
(* Parser::tag_declaration                                                 *)
(***************************************************************************)
\* The first loop: values and attributes, until `;` or `{`.
RECURSIVE BodyLoop(_, _)
BodyLoop(st, tag) ==
    LET t == st.current IN
    CASE t.type \in {"Semicolon", "LeftBrace"} -> Some(tag, st)
      [] t.type = "Eof" -> Err("Expect literal value or attribute.", t.s, t.e, st)
      [] OTHER ->
           LET r == AttributeOrLiteral(st) IN
           CASE r.kind = "some" ->
                  IF r.val.named
                  THEN BodyLoop(r.st, [tag EXCEPT !.attributes =
                                          Insert(@, r.val.name, r.val.value)])
                  ELSE BodyLoop(r.st, [tag EXCEPT !.values =
                                          Append(@, r.val.value)])
             [] r.kind = "none" ->
                  Err("Expect literal value or attribute.",
                      r.st.current.s, r.st.current.e, r.st)
             [] OTHER -> r

\* CloseBySemicolon without the check for an empty tag.
CloseBySemicolonUnchecked(st, tag) ==
    IF AdvancePanics(st) THEN Panic(st)
    ELSE Some([tag EXCEPT !.close = st.pos], Advance(st))

\* The arm Token::Semicolon of the second match.
CloseBySemicolon(st, tag) ==
    IF Len(tag.values) = 0 /\ Cardinality(DOMAIN tag.attributes) = 0
    THEN Err("Expect literal value or attribute.", st.current.s, st.current.e, st)
    ELSE IF AdvancePanics(st) THEN Panic(st)
    ELSE Some([tag EXCEPT !.close = st.pos], Advance(st))

RECURSIVE TagDeclaration(_)
RECURSIVE ChildLoop(_, _)

\* tag.children.push(child_tag) and the next iteration of the loop, or the
\* failure of the child's declaration (the `?`).
PushChild(child_tag, tag) ==
    IF child_tag.kind = "some"
    THEN ChildLoop(child_tag.st, [tag EXCEPT !.children = Append(@, child_tag.val)])
    ELSE child_tag

\* The loop of the arm Token::LeftBrace: children until `}`.
ChildLoop(st, tag) ==
    CASE st.current.type = "RightBrace" ->
           IF AdvancePanics(st) THEN Panic(st) ELSE Some(tag, Advance(st))
      [] st.current.type = "Eof" ->
           Err("Expect '}' after tag body.", st.current.s, st.current.e, st)
      [] OTHER -> PushChild(TagDeclaration(st), tag)

\* The second match: the terminator.  Its arm Token::Eof and its last arm
\* give the same error.
Terminator(st, tag) ==
    CASE st.current.type = "Semicolon" -> CloseBySemicolon(st, tag)
      [] st.current.type = "LeftBrace" ->
           IF AdvancePanics(st) THEN Panic(st)
           ELSE ChildLoop(Advance(st), [tag EXCEPT !.close = st.pos])
      [] OTHER -> Err("Expect ';' or '{'.", st.current.s, st.current.e, st)

\* The result `body` of the first loop, then the terminator.
TagBody(body) ==
    IF body.kind = "some" THEN Terminator(body.st, body.val) ELSE body

TagDeclaration(st) ==
    CASE ParserIdentifier(st).kind = "some" ->
           TagBody(BodyLoop(ParserIdentifier(st).st,
                            TagNew(ParserIdentifier(st).val, st.pos)))
      [] ParserIdentifier(st).kind = "none" ->
           Err("Expect identifier.", st.current.s, st.current.e, st)
      [] OTHER -> ParserIdentifier(st)

\* Parser::print_error slices source[end..] and source[start..end]; a slice
\* out of range panics.
PrintErrorPanics(source, start, end) == ~(start <= end /\ end <= Len(source))

(***************************************************************************)
(* The documents the parser is run on.  A document is a sequence of        *)
(* lexemes [type, text]; its source text is the lexemes separated by one   *)
(* space, and each token spans its lexeme (a String token the text between *)
(* the quotes).                                                            *)
(***************************************************************************)
Lx(type, text) == [type |-> type, text |-> text]

LxA == Lx("Identifier", <<"a">>)
LxB == Lx("Identifier", <<"b">>)
LxC == Lx("Identifier", <<"c">>)
Lx1 == Lx("Integer", <<"1">>)
Lx2 == Lx("Integer", <<"2">>)
LxStr == Lx("String", <<"\"", "x", "\"">>)
LxTrue == Lx("True", <<"t", "r", "u", "e">>)
LxFalse == Lx("False", <<"f", "a", "l", "s", "e">>)
LxNull == Lx("Null", <<"n", "u", "l", "l">>)
LxFloat == Lx("Float64", <<"1", ".", "5", "0">>)
LxEq == Lx("Equal", <<"=">>)
LxSemi == Lx("Semicolon", <<";">>)
LxLB == Lx("LeftBrace", <<"{">>)
LxRB == Lx("RightBrace", <<"}">>)
LxErr == Lx("Error", <<"@">>)
LxI32Max == Lx("Integer", <<"2", "1", "4", "7", "4", "8", "3", "6", "4", "7">>)
LxI32Over == Lx("Integer", <<"2", "1", "4", "7", "4", "8", "3", "6", "4", "8">>)

\* The token of a lexeme that starts at offset s.
TokenOf(lx, s) ==
    LET e == s + Len(lx.text) IN
    CASE lx.type = "String" -> TokSpan("String", s + 1, e - 1)
      [] lx.type = "Error" -> TokErrorAt("Unexpected character.", s, e)
      [] OTHER -> TokSpan(lx.type, s, e)

\* The source text and the tokens of a document.
RECURSIVE Layout(_, _, _, _)
Layout(doc, i, source, tokens) ==
    IF i > Len(doc) THEN [source |-> source, tokens |-> tokens]
    ELSE LET s == IF i = 1 THEN 0 ELSE Len(source) + 1
             sep == IF i = 1 THEN <<>> ELSE <<" ">>
         IN Layout(doc, i + 1, source \o sep \o doc[i].text,
                   Append(tokens, TokenOf(doc[i], s)))

MaxDocLen == 4
MaxItems == 3

DocAlphabet == {LxA, LxB, Lx1, LxEq, LxSemi, LxLB, LxRB, LxErr}

\* Every sequence of at most MaxDocLen lexemes.
ShortDocs == SeqsUpTo(DocAlphabet, MaxDocLen)

\* One tag `a`, up to MaxItems values and attributes, and an end: `;`,
\* `{ }` or nothing.
Items == {<<Lx1>>, <<Lx2>>, <<LxStr>>, <<LxA, LxEq, Lx1>>, <<LxA, LxEq, Lx2>>,
          <<LxB, LxEq, Lx1>>}

RECURSIVE Flatten(_)
Flatten(ss) == IF ss = <<>> THEN <<>> ELSE Head(ss) \o Flatten(Tail(ss))

TagDocs ==
    {<<LxA>> \o Flatten(is) \o end :
        is \in SeqsUpTo(Items, MaxItems),
        end \in {<<LxSemi>>, <<LxLB, LxRB>>, <<>>}}

\* `a { b; c; }`
DocEmptyChildren == <<LxA, LxLB, LxB, LxSemi, LxC, LxSemi, LxRB>>
\* `a { b 1; c 2; }`
DocTwoChildren == <<LxA, LxLB, LxB, Lx1, LxSemi, LxC, Lx2, LxSemi, LxRB>>
\* `private=true`, with the name shortened to `a`
DocAttributeOnly == <<LxA, LxEq, LxTrue>>
\* `a 1; b 2; c = ; a 1;`: two tags, a failing declaration, one more tag
DocErrorInThird ==
    <<LxA, Lx1, LxSemi, LxB, Lx2, LxSemi, LxC, LxEq, LxSemi, LxA, Lx1, LxSemi>>
\* `a 1 { b { c true; } b a=null { } } c 1.50 false;`
DocNested ==
    <<LxA, Lx1, LxLB, LxB, LxLB, LxC, LxTrue, LxSemi, LxRB, LxB, LxA, LxEq,
      LxNull, LxLB, LxRB, LxRB, LxC, LxFloat, LxFalse, LxSemi>>
\* `a b=1 2 b=2 1 1 a="x" b="x";`
DocMixed ==
    <<LxA, LxB, LxEq, Lx1, Lx2, LxB, LxEq, Lx2, Lx1, Lx1, LxA, LxEq, LxStr,
      LxB, LxEq, LxStr, LxSemi>>
\* `a 2147483647;` and `a 2147483648;`
DocI32Max == <<LxA, LxI32Max, LxSemi>>
DocI32Over == <<LxA, LxI32Over, LxSemi>>

ExampleDocs ==
    {DocEmptyChildren, DocTwoChildren, DocAttributeOnly, DocErrorInThird,
     DocNested, DocMixed, DocI32Max, DocI32Over}

Documents == ShortDocs \cup TagDocs \cup ExampleDocs

(***************************************************************************)
(* Parser::new and Parser::parse                                           *)
(***************************************************************************)
\* Scanner state of scanner.rs while only the parser runs.
ScannerIdle ==
    /\ scanner = [source |-> <<>>, start |-> 0, current |-> 0]
    /\ ret = NoCall
    /\ out = <<>>
    /\ callFrom = 0
    /\ scanState = "idle"

\* Parser::new on the scanner of a document: the first token is taken.
Init ==
    /\ \E doc \in Documents :
         LET laid == Layout(doc, 1, <<>>, <<>>) IN
         /\ feed = [source |-> laid.source, tokens |-> laid.tokens, pos |-> 1]
         /\ parser = [previous |-> Eof(0, 0),
                      current |-> IF Len(laid.tokens) > 0 THEN laid.tokens[1]
                                  ELSE Eof(0, 1),
                      tags |-> <<>>]
    /\ overflowChecks \in BOOLEAN
    /\ pstate = "parsing"
    /\ hist = [calls |-> 0, error |-> "", s |-> 0, e |-> 0, starts |-> <<>>]
    /\ ScannerIdle

\* The parser state the parsing operations work on.
St ==
    [source |-> feed.source, tokens |-> feed.tokens, pos |-> feed.pos,
     current |-> parser.current, checks |-> overflowChecks]

\* ParseArm that skips a token and goes on with the loop after an error.
ParseArmGoesOn(r) ==
    /\ feed' = [feed EXCEPT
                  !.pos = IF r.kind = "err" THEN r.st.pos + 1 ELSE r.st.pos]
    /\ parser' = [parser EXCEPT
                    !.current = IF r.kind = "err" THEN Advance(r.st).current
                                ELSE r.st.current,
                    !.tags = IF r.kind = "some" THEN Append(@, r.val) ELSE @]
    /\ pstate' = IF r.kind = "panic" THEN "panic" ELSE "parsing"
    /\ hist' = [hist EXCEPT
                  !.calls = @ + 1,
                  !.starts = Append(@, feed.pos),
                  !.error = IF r.kind = "err" THEN r.msg ELSE @,
                  !.s = IF r.kind = "err" THEN r.s ELSE @,
                  !.e = IF r.kind = "err" THEN r.e ELSE @]

\* What one iteration of the loop of parse() does with the result r of
\* tag_declaration: push the tag and go on, or print the error and break.
ParseArm(r) ==
    /\ feed' = [feed EXCEPT !.pos = r.st.pos]
    /\ parser' = [parser EXCEPT
                    !.current = r.st.current,
                    !.tags = IF r.kind = "some" THEN Append(@, r.val) ELSE @]
    /\ pstate' = CASE r.kind = "some" -> "parsing"
                   [] r.kind = "err" ->
                        IF PrintErrorPanics(feed.source, r.s, r.e)
                        THEN "panic" ELSE "done"
                   [] OTHER -> "panic"
    /\ hist' = [hist EXCEPT
                  !.calls = @ + 1,
                  !.starts = Append(@, feed.pos),
                  !.error = IF r.kind = "err" THEN r.msg ELSE @,
                  !.s = IF r.kind = "err" THEN r.s ELSE @,
                  !.e = IF r.kind = "err" THEN r.e ELSE @]

\* An iteration of the loop of parse() on a token other than Eof.
ParseTagDeclaration ==
    /\ pstate = "parsing"
    /\ parser.current.type # "Eof"
    /\ ParseArm(TagDeclaration(St))
    /\ UNCHANGED <<overflowChecks, scanVars>>

\* The iteration that meets Eof: break, and parse() returns the tags.
ParseEof ==
    /\ pstate = "parsing"
    /\ parser.current.type = "Eof"
    /\ pstate' = "done"
    /\ UNCHANGED <<feed, parser, overflowChecks, hist, scanVars>>

Next == ParseTagDeclaration \/ ParseEof

Spec == Init /\ [][Next]_vars

(***************************************************************************)
(* Claims about the parser (checked under Spec)                            *)
(***************************************************************************)
\* The parser is running on document doc.
Parsing(doc) ==
    /\ feed.source = Layout(doc, 1, <<>>, <<>>).source
    /\ feed.tokens = Layout(doc, 1, <<>>, <<>>).tokens

\* The text of a token of the document being parsed.
TextOf(t) == Slice(feed.source, t.s, t.e)

\* Every tag of a list of tags, children at any depth included.
RECURSIVE AllTags(_)
AllTags(tags) ==
    UNION {{tags[i]} \cup AllTags(tags[i].children) : i \in 1..Len(tags)}

\* parse() has printed an error.
Failed == hist.error # ""

\* C1: parse() halts at the first failing tag_declaration: the tag list holds
\* exactly the tags of the declarations that succeeded, one per call and in
\* the order of the calls; the failing declaration appends nothing; and once
\* a declaration has failed there is no further call, no further token is
\* read and the list does not change.
C1_HaltsAtFirstError ==
    [][/\ Failed => UNCHANGED <<parser, feed, hist>>
       /\ (Failed' /\ ~Failed) => (parser'.tags = parser.tags /\ pstate' # "parsing")
       /\ pstate' # "panic" =>
            /\ Len(parser'.tags) = hist'.calls - (IF Failed' THEN 1 ELSE 0)
            /\ \A i \in 1..Len(parser'.tags) :
                 /\ parser'.tags[i].from = hist'.starts[i]
                 /\ parser'.tags[i].name = TextOf(feed.tokens[hist'.starts[i]])
                 /\ i > 1 => hist'.starts[i - 1] < hist'.starts[i]
            /\ (~Failed /\ Len(parser'.tags) > Len(parser.tags)) =>
                 SubSeq(parser'.tags, 1, Len(parser.tags)) = parser.tags
      ]_vars

\* C1 witness: parse() returned two tags after the third declaration
\* failed, with tokens left unread.
C1_Witness ==
    /\ pstate = "done"
    /\ Failed
    /\ Len(parser.tags) = 2
    /\ hist.calls = 3
    /\ feed.pos < Len(feed.tokens)

\* The empty tag `a` closed by a brace body.
TagEmptyBrace ==
    [TagNew(<<"a">>, 1) EXCEPT !.close = 2]

\* A tag with one Integer value closed by `;`.
TagOneValue(name, n, from) ==
    [TagNew(name, from) EXCEPT !.values = <<VInteger(n)>>, !.close = from + 2]

\* C2: the terminator invariant: every tag of the list, at any depth, that
\* was closed by `;` has a value or an attribute; `a { }` is accepted as a
\* tag with no values, attributes or children; `a { b; c; }` is rejected;
\* and `a { b 1; c 2; }` yields one tag with two children of one value each.
C2_TerminatorInvariant ==
    /\ \A tag \in AllTags(parser.tags) :
         feed.tokens[tag.close].type = "Semicolon" =>
             Len(tag.values) > 0 \/ DOMAIN tag.attributes # {}
    /\ (pstate = "done" /\ Parsing(<<LxA, LxLB, LxRB>>)) =>
           (~Failed /\ parser.tags = <<TagEmptyBrace>>)
    /\ (pstate = "done" /\ Parsing(DocEmptyChildren)) =>
           (Failed /\ parser.tags = <<>>)
    /\ (pstate = "done" /\ Parsing(DocTwoChildren)) =>
           /\ ~Failed
           /\ parser.tags =
                <<[TagEmptyBrace EXCEPT !.children =
                     <<TagOneValue(<<"b">>, 1, 3), TagOneValue(<<"c">>, 2, 6)>>]>>

\* C2 witness: `a { b 1; c 2; }` has been parsed into one tag with two
\* children closed by `;`.
C2_Witness ==
    /\ pstate = "done"
    /\ Parsing(DocTwoChildren)
    /\ Len(parser.tags) = 1
    /\ Len(parser.tags[1].children) = 2
    /\ \A i \in 1..2 :
         feed.tokens[parser.tags[1].children[i].close].type = "Semicolon"

\* The declaration that the last call of tag_declaration read is a name,
\* then values and attributes up to the end of the input.
RECURSIVE ItemsToEof(_, _)
ItemsToEof(tokens, i) ==
    LET lit(k) == k <= Len(tokens) /\
                  tokens[k].type \in {"Integer", "String", "Float64", "True",
                                      "False", "Null"}
    IN IF i > Len(tokens) THEN TRUE
       ELSE IF lit(i) THEN ItemsToEof(tokens, i + 1)
       ELSE IF tokens[i].type = "Identifier" /\ i + 1 <= Len(tokens)
               /\ tokens[i + 1].type = "Equal" /\ lit(i + 2)
       THEN ItemsToEof(tokens, i + 3)
       ELSE FALSE

\* C3: when tag_declaration has read the tag name and reaches the end of the
\* input before any `;` or `{`, it fails with "Expect ';' or '{'." and parse()
\* appends no tag for the declaration; `private=true` is such an input.
C3_EofBeforeTerminator ==
    /\ (/\ pstate = "done"
        /\ hist.calls > 0
        /\ LET start == hist.starts[hist.calls] IN
             /\ feed.tokens[start].type = "Identifier"
             /\ ItemsToEof(feed.tokens, start + 1)) =>
           /\ hist.error = "Expect ';' or '{'."
           /\ Len(parser.tags) = hist.calls - 1
    /\ (pstate = "done" /\ Parsing(DocAttributeOnly)) =>
           /\ hist.error = "Expect ';' or '{'."
           /\ parser.tags = <<>>

\* The value of a literal token.
ValueOf(t) ==
    CASE t.type = "Integer" -> VInteger(ParseI32(TextOf(t)))
      [] t.type = "String" -> VString(TextOf(t))
      [] t.type = "Float64" -> ParseF64(TextOf(t))
      [] t.type = "True" -> VBoolean(TRUE)
      [] t.type = "False" -> VBoolean(FALSE)
      [] t.type = "Null" -> VNull

IsLiteralToken(t) ==
    t.type \in {"Integer", "String", "Float64", "True", "False", "Null"}

\* The values of the literal tokens at i..j that do not follow an `=`.
RECURSIVE BareLiterals(_, _)
BareLiterals(i, j) ==
    IF i > j THEN <<>>
    ELSE IF IsLiteralToken(feed.tokens[i]) /\ feed.tokens[i - 1].type # "Equal"
    THEN <<ValueOf(feed.tokens[i])>> \o BareLiterals(i + 1, j)
    ELSE BareLiterals(i + 1, j)

\* The places i in lo..hi of an attribute `name = literal`.
AttributePlaces(lo, hi) ==
    {i \in lo..(hi - 2) :
        /\ feed.tokens[i].type = "Identifier"
        /\ feed.tokens[i + 1].type = "Equal"
        /\ IsLiteralToken(feed.tokens[i + 2])}

Maximum(S) == CHOOSE x \in S : \A y \in S : y <= x

\* C10: for every parsed tag, at any depth, `values` is the sequence of the
\* bare literals between its name and its `;` or `{` in source order,
\* duplicates kept, and `attributes` has one entry for each attribute name
\* there, with the literal of the name's last occurrence.
C10_ValuesAndAttributes ==
    \A tag \in AllTags(parser.tags) :
        LET lo == tag.from + 1
            hi == tag.close - 1
            places == AttributePlaces(lo, hi)
        IN /\ tag.values = BareLiterals(lo, hi)
           /\ DOMAIN tag.attributes = {TextOf(feed.tokens[i]) : i \in places}
           /\ \A n \in DOMAIN tag.attributes :
                tag.attributes[n] =
                    ValueOf(feed.tokens[
                        Maximum({i \in places : TextOf(feed.tokens[i]) = n}) + 2])

\* C10 witness: `a b=1 2 b=2 1 1 a="x" b="x";` has been parsed: a value
\* twice, and an attribute name three times.
C10_Witness ==
    /\ pstate = "done"
    /\ Parsing(DocMixed)
    /\ Len(parser.tags) = 1
    /\ parser.tags[1].values = <<VInteger(2), VInteger(1), VInteger(1)>>
    /\ parser.tags[1].attributes =
           [n \in {<<"a">>, <<"b">>} |-> VString(<<"x">>)]

\* Token i of the document is an Identifier, an `=`, a literal.
IsIdentifierAt(i) == i <= Len(feed.tokens) /\ feed.tokens[i].type = "Identifier"
IsEqualAt(i) == i <= Len(feed.tokens) /\ feed.tokens[i].type = "Equal"
IsLiteralAt(i) == i <= Len(feed.tokens) /\ IsLiteralToken(feed.tokens[i])

\* The first Identifier token that stands where a declaration wants a value
\* (in value position, or right after an `=`) and that the declaration
\* reaches with nothing else wrong before it; 0 when there is none.  The
\* walk starts after the tag name: i is the token, inBody tells the values
\* and attributes of a tag from the place where a child's name is due, depth
\* counts the open braces and n the values and attributes of the tag so far.
RECURSIVE Offender(_, _, _, _)
Offender(i, inBody, depth, n) ==
    IF i > Len(feed.tokens) THEN 0
    ELSE IF ~inBody
    THEN CASE IsIdentifierAt(i) -> Offender(i + 1, TRUE, depth, 0)
           [] feed.tokens[i].type = "RightBrace" /\ depth > 1 ->
                Offender(i + 1, FALSE, depth - 1, 0)
           [] OTHER -> 0
    ELSE CASE IsLiteralAt(i) -> Offender(i + 1, TRUE, depth, n + 1)
           [] IsIdentifierAt(i) /\ ~IsEqualAt(i + 1) -> i
           [] IsIdentifierAt(i) /\ IsEqualAt(i + 1) ->
                IF IsLiteralAt(i + 2) THEN Offender(i + 3, TRUE, depth, n + 1)
                ELSE IF IsIdentifierAt(i + 2) THEN i + 2
                ELSE 0
           [] feed.tokens[i].type = "Semicolon" /\ n > 0 /\ depth > 0 ->
                Offender(i + 1, FALSE, depth, 0)
           [] feed.tokens[i].type = "LeftBrace" ->
                Offender(i + 1, FALSE, depth + 1, 0)
           [] OTHER -> 0

\* The Offender of the declaration that the last call of tag_declaration read.
LastOffender ==
    IF hist.calls > 0 /\ IsIdentifierAt(hist.starts[hist.calls])
    THEN Offender(hist.starts[hist.calls] + 1, TRUE, 0, 0)
    ELSE 0

\* The message for an Identifier in value position, by what follows it.
NameWithoutEqual(j) ==
    IF j + 1 > Len(feed.tokens) THEN "Unexpected identifier."
    ELSE "Expect '=' after attribute name."

\* No tag holds a value that comes from an Identifier token: between the
\* name of a parsed tag and its `;` or `{` every Identifier is followed by
\* `=`, and every `=` by a literal.
NoIdentifierValue ==
    \A tag \in AllTags(parser.tags) :
        /\ \A i \in (tag.from + 1)..(tag.close - 1) :
             /\ IsIdentifierAt(i) => IsEqualAt(i + 1)
             /\ IsEqualAt(i) => IsLiteralAt(i + 1)
        /\ \A k \in 1..Len(tag.values) :
             tag.values[k].type \in {"String", "Integer", "Float", "Boolean", "Null"}

\* C11 as stated: inside a tag body every Identifier token that is not
\* followed by `=` makes tag_declaration fail with "Expect '=' after attribute
\* name.", or with "Unexpected identifier." at the end of the input; parse()
\* reports that failure and appends no tag; and no parsed tag holds a value
\* that comes from an Identifier token.
C11_IdentifierNeverValue ==
    /\ (pstate = "done" /\ LastOffender > 0 /\ ~IsEqualAt(LastOffender + 1)) =>
           /\ hist.error = NameWithoutEqual(LastOffender)
           /\ Len(parser.tags) = hist.calls - 1
    /\ NoIdentifierValue

\* C11 as amended: an Identifier token in value position that is not
\* followed by `=` makes tag_declaration fail with "Expect '=' after attribute
\* name.", or with "Unexpected identifier." at the end of the input, at the
\* span of the token that follows it; an Identifier token right after an `=`
\* makes it fail with "Expect literal after '='." at the span of the `=`;
\* parse() reports that failure and appends no tag; and no parsed tag holds
\* a value that comes from an Identifier token.
C11_IdentifierRejected ==
    /\ (pstate = "done" /\ LastOffender > 0) =>
           /\ Len(parser.tags) = hist.calls - 1
           /\ IF IsEqualAt(LastOffender - 1)
              THEN /\ hist.error = "Expect literal after '='."
                   /\ hist.s = feed.tokens[LastOffender - 1].s
                   /\ hist.e = feed.tokens[LastOffender - 1].e
              ELSE /\ hist.error = NameWithoutEqual(LastOffender)
                   /\ IF LastOffender + 1 > Len(feed.tokens)
                      THEN hist.s = 0 /\ hist.e = 1
                      ELSE /\ hist.s = feed.tokens[LastOffender + 1].s
                           /\ hist.e = feed.tokens[LastOffender + 1].e
    /\ NoIdentifierValue

\* C11 witness: `a { b a` has been parsed: the Identifier `a` in the body
\* of the child `b` ends the input, and parse() returned no tag.
C11_Witness ==
    /\ pstate = "done"
    /\ Parsing(<<LxA, LxLB, LxB, LxA>>)
    /\ LastOffender = 4
    /\ hist.error = "Unexpected identifier."
    /\ parser.tags = <<>>

\* The digits of i64::MAX, 9223372036854775807.
I64MaxDigits ==
    <<"9", "2", "2", "3", "3", "7", "2", "0", "3", "6", "8", "5", "4", "7",
      "7", "5", "8", "0", "7">>

\* a <= b for two runs of digits of the same length.
RECURSIVE DigitsLeq(_, _)
DigitsLeq(a, b) ==
    IF a = <<>> THEN TRUE
    ELSE IF DigitValue(Head(a)) # DigitValue(Head(b))
    THEN DigitValue(Head(a)) < DigitValue(Head(b))
    ELSE DigitsLeq(Tail(a), Tail(b))

\* The run of digits, without leading zeros, denotes a number of the signed
\* 64-bit range.
FitsI64(text) ==
    \/ Len(text) < Len(I64MaxDigits)
    \/ Len(text) = Len(I64MaxDigits) /\ DigitsLeq(text, I64MaxDigits)

\* The Integer tokens that stand as bare values in the declaration the last
\* call of tag_declaration read: after the tag name come literals only, and
\* the token at i is one of them.
RECURSIVE LiteralsFrom(_, _)
LiteralsFrom(lo, hi) ==
    lo > hi \/ (IsLiteralAt(lo) /\ LiteralsFrom(lo + 1, hi))

IntegerReached(i) ==
    /\ hist.calls > 0
    /\ IsIdentifierAt(hist.starts[hist.calls])
    /\ hist.starts[hist.calls] < i
    /\ i <= Len(feed.tokens)
    /\ feed.tokens[i].type = "Integer"
    /\ LiteralsFrom(hist.starts[hist.calls] + 1, i)

\* C12: literal() converts every Integer token whose digits denote a number
\* of the signed 64-bit range to an Integer value without failing: once
\* tag_declaration has reached such a token, parse() has not panicked, and a
\* tag closed by `;` right after the token holds the number.
C12_IntegerI64Range ==
    \A i \in 1..Len(feed.tokens) :
        (IntegerReached(i) /\ FitsI64(TextOf(feed.tokens[i]))) =>
            /\ pstate # "panic"
            /\ (pstate = "done" /\ ~Failed /\ Parsing(DocI32Max)) =>
                   parser.tags[1].values = <<VInteger(I32Max)>>

\* C14: parse() never crashes, whatever the source text, the empty text and
\* the texts of one byte included: no call of advance() underflows, no
\* operation panics, and every span that print_error is given satisfies
\* start <= end <= length of the source.
C14_ParseNeverCrashes ==
    /\ pstate # "panic"
    /\ Failed => (hist.s <= hist.e /\ hist.e <= Len(feed.source))

====
